---- MODULE Spec2Model ----
(***************************************************************************)
(* Model of the XSBench package recipe                                     *)
(* (var/spack/repos/builtin/packages/xsbench/package.py).                  *)
(*                                                                         *)
(* A string that the recipe assembles from flags is kept as the sequence   *)
(* of its space-separated words; Render gives the literal key=value text.  *)
(* A build argument "KEY=words" is the record [key, words].                *)
(***************************************************************************)
EXTENDS Integers, Sequences, FiniteSets, TLC

VARIABLES spec, phase, directory, targets, arch_read, error, installed

vars == <<spec, phase, directory, targets, arch_read, error, installed>>

----------------------------------------------------------------------------
(* Bounds of the explored inputs *)

\* number of distinct compute capabilities that may appear in cuda_arch
NumArch == 2
\* longest cuda_arch value list
MaxArchLen == 2

----------------------------------------------------------------------------
(* Inputs *)

VariantNames ==
    {"mpi", "openmp-threading", "openmp-offload", "hip", "cuda", "kokkos",
     "sycl", "openacc", "align"}

Compilers == {"gcc", "clang", "nvhpc"}

\* the value of cuda_arch when no architecture was given (cuda_arch=none)
ArchNone == <<"none">>

ArchValue(i) == ToString(10 * (5 + i))

\* a given cuda_arch: a non-empty strictly increasing list of capabilities
ArchLists ==
    UNION {{a \in [1..n -> 1..NumArch] : \A i \in 1..(n - 1) : a[i] < a[i + 1]}
           : n \in 1..MaxArchLen}

CudaArchs == {ArchNone} \cup {[i \in 1..Len(a) |-> ArchValue(a[i])] : a \in ArchLists}

Specs == [variants : [VariantNames -> BOOLEAN], cuda_arch : CudaArchs, compiler : Compilers]

\* the value of a function that returns without a return statement
None == "None"

\* "+name" in spec
Has(s, name) == s.variants[name]

\* "~name" in spec
Lacks(s, name) == ~s.variants[name]

----------------------------------------------------------------------------
(* Collaborators the recipe reads from *)

spack_cc == "cc"
spack_cxx == "c++"
nvcc == "/cuda/bin/nvcc"
hipcc == "/hip/bin/hipcc"

openmp_flag(compiler) == IF compiler = "nvhpc" THEN "-mp" ELSE "-fopenmp"

cxx17_flag(compiler) == IF compiler = "nvhpc" THEN "--c++17" ELSE "-std=c++17"

cuda_flags(arch_list) ==
    [i \in 1..Len(arch_list) |->
        "--generate-code arch=compute_" \o arch_list[i] \o ",code=sm_" \o arch_list[i]]

----------------------------------------------------------------------------
(* Text helpers *)

RECURSIVE Join(_)
Join(words) ==
    IF Len(words) = 0 THEN ""
    ELSE IF Len(words) = 1 THEN words[1]
    ELSE words[1] \o " " \o Join(Tail(words))

\* "KEY={0}".format(value)
Arg(key, words) == [key |-> key, words |-> words]

Render(arg) == arg.key \o "=" \o Join(arg.words)

Contains(seq, x) == \E i \in 1..Len(seq) : seq[i] = x

----------------------------------------------------------------------------
(* Declarations *)

\* the declarations with the openacc conflict left out
conflicts_without_openacc(s) ==
    \/ s.cuda_arch = ArchNone /\ Has(s, "cuda")
    \/ s.cuda_arch = ArchNone /\ Has(s, "openmp-offload")

\* the declarations with the openmp-offload conflict left out
conflicts_without_offload(s) ==
    \/ s.cuda_arch = ArchNone /\ Has(s, "cuda")
    \/ s.cuda_arch = ArchNone /\ Has(s, "openacc")

conflicts(s) ==
    \/ s.cuda_arch = ArchNone /\ Has(s, "cuda")
    \/ s.cuda_arch = ArchNone /\ Has(s, "openacc")
    \/ s.cuda_arch = ArchNone /\ Has(s, "openmp-offload")

requires(s) ==
    /\ Has(s, "openacc") => s.compiler = "nvhpc"
    /\ Has(s, "openmp-offload") => s.compiler = "clang"

----------------------------------------------------------------------------
(* Xsbench.build_directory *)

\* the chain with the openacc test left out
build_directory_without_openacc(s) ==
    IF Has(s, "openmp-threading") THEN "openmp-threading"
    ELSE IF Has(s, "openmp-offload") THEN "openmp-offload"
    ELSE IF Has(s, "hip") THEN "hip"
    ELSE IF Has(s, "cuda") THEN "cuda"
    ELSE IF Has(s, "kokkos") THEN "kokkos"
    ELSE IF Has(s, "sycl") THEN "sycl"
    ELSE IF Has(s, "hip") THEN "hip"
    ELSE IF Has(s, "cuda") THEN "cuda"
    ELSE None

\* the chain with the trailing hip and cuda tests moved to the front
build_directory_cuda_first(s) ==
    IF Has(s, "hip") THEN "hip"
    ELSE IF Has(s, "cuda") THEN "cuda"
    ELSE IF Has(s, "openmp-threading") THEN "openmp-threading"
    ELSE IF Has(s, "openmp-offload") THEN "openmp-offload"
    ELSE IF Has(s, "kokkos") THEN "kokkos"
    ELSE IF Has(s, "sycl") THEN "sycl"
    ELSE IF Has(s, "openacc") THEN "openacc"
    ELSE None

build_directory(s) ==
    IF Has(s, "openmp-threading") THEN "openmp-threading"
    ELSE IF Has(s, "openmp-offload") THEN "openmp-offload"
    ELSE IF Has(s, "hip") THEN "hip"
    ELSE IF Has(s, "cuda") THEN "cuda"
    ELSE IF Has(s, "kokkos") THEN "kokkos"
    ELSE IF Has(s, "sycl") THEN "sycl"
    ELSE IF Has(s, "openacc") THEN "openacc"
    ELSE IF Has(s, "hip") THEN "hip"
    ELSE IF Has(s, "cuda") THEN "cuda"
    ELSE None

----------------------------------------------------------------------------
(* Xsbench.build_targets *)

\* the accelerator arms tested before the mpi arm
compiler_branch_mpi_last(s) ==
    IF Has(s, "cuda") /\ ~Has(s, "openacc") /\ ~Has(s, "openmp-offload") THEN "cuda"
    ELSE IF Has(s, "hip") THEN "hip"
    ELSE IF Has(s, "sycl") THEN "sycl"
    ELSE IF Has(s, "mpi") THEN "mpi"
    ELSE IF Has(s, "openmp-offload") THEN "openmp-offload"
    ELSE IF Has(s, "openacc") THEN "openacc"
    ELSE "host"

\* the cuda arm taken whenever cuda is set
compiler_branch_cuda_unconditional(s) ==
    IF Has(s, "mpi") THEN "mpi"
    ELSE IF Has(s, "cuda") THEN "cuda"
    ELSE IF Has(s, "hip") THEN "hip"
    ELSE IF Has(s, "sycl") THEN "sycl"
    ELSE IF Has(s, "openmp-offload") THEN "openmp-offload"
    ELSE IF Has(s, "openacc") THEN "openacc"
    ELSE "host"

\* which arm of the compiler selection is taken
compiler_branch(s) ==
    IF Has(s, "mpi") THEN "mpi"
    ELSE IF Has(s, "cuda") /\ ~Has(s, "openacc") /\ ~Has(s, "openmp-offload") THEN "cuda"
    ELSE IF Has(s, "hip") THEN "hip"
    ELSE IF Has(s, "sycl") THEN "sycl"
    ELSE IF Has(s, "openmp-offload") THEN "openmp-offload"
    ELSE IF Has(s, "openacc") THEN "openacc"
    ELSE "host"

\* the arguments the arm appends to targets
branch_targets(s, b) ==
    CASE b = "mpi" -> <<Arg("CC", <<"mpicc">>), Arg("MPI", <<"yes">>)>>
      [] b = "cuda" -> <<Arg("CC", <<nvcc>>), Arg("MPI", <<"no">>)>>
      [] b = "hip" -> <<Arg("CC", <<hipcc>>), Arg("MPI", <<"no">>)>>
      [] b = "sycl" -> <<Arg("CC", <<spack_cxx>>), Arg("MPI", <<"no">>)>>
      [] OTHER -> <<Arg("CC", <<spack_cc>>), Arg("MPI", <<"no">>)>>

\* the words the arm appends to cflags
branch_cflags(s, b) ==
    CASE b = "cuda" -> cuda_flags(s.cuda_arch)
      [] b = "sycl" -> <<"-fsycl", cxx17_flag(s.compiler)>>
      [] b = "openmp-offload" ->
            <<"-fopenmp-targets=nvptx-nvidia-cuda", "-Xopenmp-target",
              "-march=sm_" \o s.cuda_arch[1]>>
      [] b = "openacc" ->
            <<"-acc", "-Minfo=accel", "-gpu=cc" \o s.cuda_arch[1]>>
      [] OTHER -> <<>>

\* whether the arm reads spec.variants["cuda_arch"]
reads_cuda_arch(b) == b \in {"cuda", "openmp-offload", "openacc"}

openmp_cflags(s) ==
    IF Has(s, "openmp-threading") \/ Has(s, "openmp-offload") \/ Has(s, "openacc")
    THEN <<openmp_flag(s.compiler)>>
    ELSE <<>>

align_targets(s) ==
    IF Has(s, "align") THEN <<Arg("ALIGNED", <<"yes">>)>>
    ELSE IF Lacks(s, "align") THEN <<Arg("ALIGNED", <<"no">>)>>
    ELSE <<>>

align_cflags(s) == IF Has(s, "align") THEN <<"-DALIGNED_WORK">> ELSE <<>>

\* cflags seeded with -Wall as well
cflags_wall(s) ==
    <<"-O3", "-Wall">> \o branch_cflags(s, compiler_branch(s)) \o openmp_cflags(s)
        \o align_cflags(s)

cflags(s) ==
    <<"-O3">> \o branch_cflags(s, compiler_branch(s)) \o openmp_cflags(s) \o align_cflags(s)

ldflags == <<"-lm">>

\* the ALIGNED argument appended after CFLAGS and LDFLAGS
build_targets_align_last(s) ==
    branch_targets(s, compiler_branch(s))
        \o <<Arg("CFLAGS", cflags(s)), Arg("LDFLAGS", ldflags)>>
        \o align_targets(s)

build_targets(s) ==
    branch_targets(s, compiler_branch(s))
        \o align_targets(s)
        \o <<Arg("CFLAGS", cflags(s)), Arg("LDFLAGS", ldflags)>>

----------------------------------------------------------------------------
(* One build invocation: request, concretize, resolve, build, install *)

Unset == "unset"

Init ==
    /\ spec \in Specs
    /\ phase = "requested"
    /\ directory = Unset
    /\ targets = <<>>
    /\ arch_read = FALSE
    /\ error = None
    /\ installed = None

\* the declarations are evaluated on the requested spec before anything else
Concretize ==
    /\ phase = "requested"
    /\ IF conflicts(spec) \/ ~requires(spec)
       THEN phase' = "conflict" /\ error' = "ConfigurationConflict"
       ELSE phase' = "concretized" /\ error' = error
    /\ UNCHANGED <<spec, directory, targets, arch_read, installed>>

\* the resolver evaluates both properties of the package
Resolve ==
    /\ phase = "concretized"
    /\ directory' = build_directory(spec)
    /\ targets' = build_targets(spec)
    /\ arch_read' = reads_cuda_arch(compiler_branch(spec))
    /\ phase' = "resolved"
    /\ UNCHANGED <<spec, error, installed>>

\* make(*build_targets) inside working_dir(build_directory)
Build ==
    /\ phase = "resolved"
    /\ IF directory = None
       THEN phase' = "failed" /\ error' = "ExternalBuildFailure"
       ELSE phase' = "built" /\ error' = error
    /\ UNCHANGED <<spec, directory, targets, arch_read, installed>>

Install ==
    /\ phase = "built"
    /\ installed' = <<build_directory(spec), "XSBench">>
    /\ phase' = "installed"
    /\ UNCHANGED <<spec, directory, targets, arch_read, error>>

Next == Concretize \/ Resolve \/ Build \/ Install

Spec == Init /\ [][Next]_vars

----------------------------------------------------------------------------
(* The two properties applied to every spec, admitted or not *)

InitFn ==
    /\ spec \in Specs
    /\ phase = "call"
    /\ directory = Unset
    /\ targets = <<>>
    /\ arch_read = FALSE
    /\ error = None
    /\ installed = None

CallBuildDirectory ==
    /\ phase = "call"
    /\ directory = Unset
    /\ directory' = build_directory(spec)
    /\ UNCHANGED <<spec, phase, targets, arch_read, error, installed>>

CallBuildTargets ==
    /\ phase = "call"
    /\ targets = <<>>
    /\ targets' = build_targets(spec)
    /\ arch_read' = reads_cuda_arch(compiler_branch(spec))
    /\ UNCHANGED <<spec, phase, directory, error, installed>>

NextFn == CallBuildDirectory \/ CallBuildTargets

SpecFn == InitFn /\ [][NextFn]_vars

----------------------------------------------------------------------------
(* Vocabulary of the properties *)

Backends ==
    {"openmp-threading", "openmp-offload", "hip", "cuda", "kokkos", "sycl", "openacc"}

DirectoryCalled == directory # Unset

TargetsCalled == targets # <<>>

KeyIndexes(t, key) == {i \in 1..Len(t) : t[i].key = key}

HasArg(t, key, word) == \E i \in 1..Len(t) : t[i] = [key |-> key, words |-> <<word>>]

\* the words of the (last) CFLAGS argument
CflagsWords(t) ==
    IF KeyIndexes(t, "CFLAGS") = {} THEN <<>>
    ELSE t[CHOOSE i \in KeyIndexes(t, "CFLAGS") : \A j \in KeyIndexes(t, "CFLAGS") : j <= i].words

AllIn(words, seq) == \A i \in 1..Len(words) : Contains(seq, words[i])

NoneIn(words, seq) == \A i \in 1..Len(words) : ~Contains(seq, words[i])

\* what each backend contributes, as the properties state it
StatedCompiler(b) ==
    CASE b = "cuda" -> nvcc
      [] b = "hip" -> hipcc
      [] b = "sycl" -> spack_cxx
      [] OTHER -> spack_cc

StatedFlags(s, b) ==
    CASE b = "cuda" -> cuda_flags(s.cuda_arch)
      [] b = "sycl" -> <<"-fsycl", cxx17_flag(s.compiler)>>
      [] b = "openmp-offload" ->
            <<"-fopenmp-targets=nvptx-nvidia-cuda", "-Xopenmp-target",
              "-march=sm_" \o Head(s.cuda_arch)>>
      [] b = "openacc" -> <<"-acc", "-Minfo=accel", "-gpu=cc" \o Head(s.cuda_arch)>>
      [] OTHER -> <<>>

\* targets carries the compiler and the flags of backend b and of no other
SelectsBackend(s, t, b) ==
    /\ HasArg(t, "CC", StatedCompiler(b))
    /\ Cardinality(KeyIndexes(t, "CC")) = 1
    /\ AllIn(StatedFlags(s, b), CflagsWords(t))
    /\ \A o \in {"cuda", "sycl", "openmp-offload", "openacc"} \ {b} :
          NoneIn(StatedFlags(s, o), CflagsWords(t))

Resolved == phase \in {"resolved", "built", "failed", "installed"}

----------------------------------------------------------------------------
(* C1 *)

\* the ordered chain in which cuda counts only without openacc and openmp-offload
StatedDirectory(s) ==
    IF Has(s, "openmp-threading") THEN "openmp-threading"
    ELSE IF Has(s, "openmp-offload") THEN "openmp-offload"
    ELSE IF Has(s, "hip") THEN "hip"
    ELSE IF Has(s, "cuda") /\ ~Has(s, "openacc") /\ ~Has(s, "openmp-offload") THEN "cuda"
    ELSE IF Has(s, "kokkos") THEN "kokkos"
    ELSE IF Has(s, "sycl") THEN "sycl"
    ELSE IF Has(s, "openacc") THEN "openacc"
    ELSE None

\* C1: build_directory equals the ordered priority chain openmp-threading,
\* openmp-offload, hip, cuda (only if neither openacc nor openmp-offload is
\* set), kokkos, sycl, openacc, else no subdirectory; "cuda" is returned only
\* when openacc and openmp-offload are both unset.
C1_DirectoryIsStatedChain ==
    DirectoryCalled =>
        /\ directory = StatedDirectory(spec)
        /\ directory = "cuda" =>
              Has(spec, "cuda") /\ ~Has(spec, "openacc") /\ ~Has(spec, "openmp-offload")

----------------------------------------------------------------------------
(* C2 *)

\* C2: with mpi set, whatever cuda, hip, sycl, openmp-offload, openacc and the
\* architecture are, build_targets contains CC=mpicc and MPI=yes, exactly one
\* CC= argument, no accelerator compiler selector and no MPI=no.
C2_MpiWins ==
    (TargetsCalled /\ Has(spec, "mpi")) =>
        /\ HasArg(targets, "CC", "mpicc")
        /\ HasArg(targets, "MPI", "yes")
        /\ Cardinality(KeyIndexes(targets, "CC")) = 1
        /\ \A c \in {nvcc, hipcc, spack_cxx} : ~HasArg(targets, "CC", c)
        /\ ~HasArg(targets, "MPI", "no")

C2_Witness ==
    /\ TargetsCalled
    /\ Has(spec, "mpi") /\ Has(spec, "cuda") /\ Has(spec, "hip") /\ Has(spec, "sycl")
    /\ spec.cuda_arch = ArchNone
    /\ HasArg(targets, "CC", "mpicc")

----------------------------------------------------------------------------
(* C3 *)

\* first match in the order cuda, hip, sycl, openmp-offload, openacc, else host
FirstMatchCudaAlways(s) ==
    IF Has(s, "cuda") THEN "cuda"
    ELSE IF Has(s, "hip") THEN "hip"
    ELSE IF Has(s, "sycl") THEN "sycl"
    ELSE IF Has(s, "openmp-offload") THEN "openmp-offload"
    ELSE IF Has(s, "openacc") THEN "openacc"
    ELSE "host"

\* the same order, cuda matching only without openacc and openmp-offload
FirstMatchCudaAlone(s) ==
    IF Has(s, "cuda") /\ ~Has(s, "openacc") /\ ~Has(s, "openmp-offload") THEN "cuda"
    ELSE IF Has(s, "hip") THEN "hip"
    ELSE IF Has(s, "sycl") THEN "sycl"
    ELSE IF Has(s, "openmp-offload") THEN "openmp-offload"
    ELSE IF Has(s, "openacc") THEN "openacc"
    ELSE "host"

\* C3 as stated: with mpi unset, build_targets selects the compiler and flags
\* of the first matching variant in the order cuda, hip, sycl, openmp-offload,
\* openacc, else the host C compiler, then appends MPI=no; whenever cuda is set
\* the CUDA compiler is selected whatever the other variants are.
C3_FirstMatchCudaAlways ==
    (TargetsCalled /\ ~Has(spec, "mpi")) =>
        /\ SelectsBackend(spec, targets, FirstMatchCudaAlways(spec))
        /\ HasArg(targets, "MPI", "no")
        /\ Has(spec, "cuda") => HasArg(targets, "CC", nvcc)

\* C3 amended: with mpi unset, build_targets selects the compiler and flags of
\* the first matching variant in the order cuda (matching only when neither
\* openacc nor openmp-offload is set), hip, sycl, openmp-offload, openacc, else
\* the host C compiler, then appends MPI=no; whenever cuda is set and openacc
\* and openmp-offload are not, the CUDA compiler is selected.
C3_FirstMatchCudaAlone ==
    (TargetsCalled /\ ~Has(spec, "mpi")) =>
        /\ SelectsBackend(spec, targets, FirstMatchCudaAlone(spec))
        /\ HasArg(targets, "MPI", "no")
        /\ (Has(spec, "cuda") /\ ~Has(spec, "openacc") /\ ~Has(spec, "openmp-offload"))
              => HasArg(targets, "CC", nvcc)

C3_Witness ==
    /\ TargetsCalled
    /\ ~Has(spec, "mpi") /\ Has(spec, "cuda") /\ Has(spec, "openacc")
    /\ ~Has(spec, "hip") /\ ~Has(spec, "sycl") /\ ~Has(spec, "openmp-offload")
    /\ HasArg(targets, "CC", spack_cc)
    /\ Contains(CflagsWords(targets), "-acc")

----------------------------------------------------------------------------
(* C4 *)

BadRequest(s) ==
    \/ (Has(s, "cuda") \/ Has(s, "openacc") \/ Has(s, "openmp-offload"))
          /\ s.cuda_arch = ArchNone
    \/ Has(s, "openacc") /\ s.compiler # "nvhpc"
    \/ Has(s, "openmp-offload") /\ s.compiler # "clang"

\* C4: a request for cuda, openacc or openmp-offload without an architecture,
\* for openacc with a compiler other than nvhpc, or for openmp-offload with a
\* compiler other than clang ends in ConfigurationConflict; no build plan is
\* produced and neither build nor install starts.
C4_ConflictsStopTheRun ==
    BadRequest(spec) =>
        /\ phase \in {"requested", "conflict"}
        /\ phase = "conflict" => error = "ConfigurationConflict"
        /\ directory = Unset /\ targets = <<>> /\ installed = None

C4_Witness ==
    /\ phase = "conflict"
    /\ error = "ConfigurationConflict"
    /\ Has(spec, "openacc") /\ ~Has(spec, "cuda") /\ ~Has(spec, "openmp-offload")
    /\ spec.cuda_arch = ArchNone
    /\ spec.compiler = "nvhpc"

----------------------------------------------------------------------------
(* C5 *)

ActiveBackends(s) == {b \in Backends : Has(s, b)}

\* C5: when exactly one of openmp-threading, openmp-offload, hip, cuda, kokkos,
\* sycl, openacc is set (mpi and align arbitrary), build_directory is the name
\* of that variant.
C5_SingleBackendDirectory ==
    (DirectoryCalled /\ Cardinality(ActiveBackends(spec)) = 1) =>
        directory \in ActiveBackends(spec)

C5_Witness ==
    /\ DirectoryCalled
    /\ ActiveBackends(spec) = {"openacc"}
    /\ Has(spec, "mpi") /\ Has(spec, "align")
    /\ directory = "openacc"

----------------------------------------------------------------------------
(* C6 *)

\* C6: when openmp-threading is set, build_directory is "openmp-threading"
\* whatever cuda and the other variants are.
C6_ThreadingFirst ==
    (DirectoryCalled /\ Has(spec, "openmp-threading")) => directory = "openmp-threading"

C6_Witness ==
    /\ DirectoryCalled
    /\ Has(spec, "openmp-threading") /\ Has(spec, "cuda") /\ Has(spec, "hip")
    /\ directory = "openmp-threading"

----------------------------------------------------------------------------
(* C7 *)

AllVariantsOff(s) == \A v \in VariantNames : ~Has(s, v)

\* C7: with every variant unset, build_directory designates no subdirectory
\* and build_targets gives the host C compiler as CC, MPI=no, CFLAGS exactly
\* "-O3" and LDFLAGS exactly "-lm".
C7_AllOffDefaults ==
    AllVariantsOff(spec) =>
        /\ DirectoryCalled => directory = None
        /\ TargetsCalled =>
              /\ HasArg(targets, "CC", spack_cc)
              /\ Cardinality(KeyIndexes(targets, "CC")) = 1
              /\ HasArg(targets, "MPI", "no")
              /\ \A i \in KeyIndexes(targets, "CFLAGS") : Render(targets[i]) = "CFLAGS=-O3"
              /\ \A i \in KeyIndexes(targets, "LDFLAGS") : Render(targets[i]) = "LDFLAGS=-lm"
              /\ Cardinality(KeyIndexes(targets, "CFLAGS")) = 1
              /\ Cardinality(KeyIndexes(targets, "LDFLAGS")) = 1

C7_Witness ==
    /\ AllVariantsOff(spec)
    /\ directory = None
    /\ TargetsCalled
    /\ HasArg(targets, "CFLAGS", "-O3")

----------------------------------------------------------------------------
(* C8 *)

\* C8: the last two elements of build_targets are the CFLAGS= argument with
\* the accumulated flags and then the LDFLAGS= argument; neither key occurs
\* earlier, and every CC=, MPI= and ALIGNED= argument precedes them.
C8_FlagsLast ==
    TargetsCalled =>
        LET n == Len(targets) IN
        /\ n >= 2
        /\ KeyIndexes(targets, "CFLAGS") = {n - 1}
        /\ KeyIndexes(targets, "LDFLAGS") = {n}
        /\ \A i \in KeyIndexes(targets, "CC") \cup KeyIndexes(targets, "MPI")
                      \cup KeyIndexes(targets, "ALIGNED") : i < n - 1
        /\ Head(targets[n - 1].words) = "-O3"
        /\ Has(spec, "align") => Contains(targets[n - 1].words, "-DALIGNED_WORK")
        /\ targets[n].words = <<"-lm">>

C8_Witness ==
    /\ TargetsCalled
    /\ Has(spec, "align") /\ Has(spec, "sycl") /\ ~Has(spec, "mpi")
    /\ Len(targets) = 5
    /\ targets[3] = [key |-> "ALIGNED", words |-> <<"yes">>]
    /\ targets[4].key = "CFLAGS"

----------------------------------------------------------------------------
(* C9 *)

\* C9: in every admitted configuration with mpi unset, the backend whose
\* directory build_directory returns is the backend whose compiler and flags
\* build_targets selects (cuda: nvcc with architecture flags; hip: hipcc;
\* sycl: the C++ compiler with -fsycl; openmp-offload: the C compiler with
\* -fopenmp-targets; openacc: the C compiler with the -acc flags).
C9_ChainsAgree ==
    (Resolved /\ ~Has(spec, "mpi")) =>
        \A b \in {"cuda", "hip", "sycl", "openmp-offload", "openacc"} :
            directory = b =>
                /\ HasArg(targets, "CC", StatedCompiler(b))
                /\ AllIn(StatedFlags(spec, b), CflagsWords(targets))

----------------------------------------------------------------------------
(* C10 *)

\* C10: in every admitted configuration, whenever build_targets reads the
\* architecture descriptor the descriptor is not none, and with mpi set the
\* descriptor is not read at all.
C10_ArchReadsAreSafe ==
    Resolved =>
        /\ arch_read => spec.cuda_arch # ArchNone
        /\ Has(spec, "mpi") => ~arch_read

C10_Witness ==
    /\ Resolved
    /\ arch_read
    /\ Has(spec, "openmp-offload") /\ ~Has(spec, "cuda")
    /\ spec.cuda_arch # ArchNone
    /\ Contains(CflagsWords(targets), "-march=sm_" \o spec.cuda_arch[1])

====
